---- MODULE Spec2Model ----
(***************************************************************************)
(* Model of the connect proxy, web/src/app/api/connect/route.ts.           *)
(*                                                                         *)
(* POST() is an async function: it runs to completion between awaits, so   *)
(* each action below is one synchronous segment of the handler, from the   *)
(* settling of the awaited promise to the next await or to the return.     *)
(* The upstream Pipecat service and the hosting runtime are the            *)
(* environment: they choose the status, status text and body of the        *)
(* upstream response, and whether fetch or the body read faults.           *)
(***************************************************************************)
EXTENDS Naturals, Sequences, FiniteSets

\* Number of handler invocations in flight.
NumInv == 2

Inv == 1..NumInv

\* The invocation that runs in Spec, where a handler runs alone.
Alone == {1}

VARIABLES
    env,        \* process.env: PIPECAT_API_KEY and PIPECAT_API_URL
    pc,         \* per invocation: pending | awaitFetch | awaitText | awaitJson | succeeded | failed
    apiKey,     \* per invocation: const apiKey
    apiUrl,     \* per invocation: const apiUrl
    calls,      \* per invocation: sequence of outbound fetch() calls made
    response,   \* per invocation: const response (the resolved fetch)
    data,       \* per invocation: const data (the parsed body)
    log,        \* per invocation: sequence of errors given to console.error
    responses,  \* per invocation: sequence of responses returned to the caller
    upstream    \* per invocation: what the upstream did (environment history)

vars == <<env, pc, apiKey, apiUrl, calls, response, data, log, responses, upstream>>

----------------------------------------------------------------------------
(* Values *)

\* An environment variable is either unset (undefined) or a string.
EnvUnset == [set |-> FALSE, v |-> ""]
EnvStr(s) == [set |-> TRUE, v |-> s]
EnvVals == {EnvUnset, EnvStr(""), EnvStr("x")}

\* Scalar JavaScript / JSON values.
Undefined == [t |-> "undefined", v |-> ""]
Null == [t |-> "null", v |-> ""]
Str(s) == [t |-> "str", v |-> s]

\* The values the upstream may put in a member of its JSON body.
MemberVals == {Str("U"), Str("T"), Null}

\* All JSON objects over the given keys, as sets of <<key, value>> members.
ObjectsOver(keys, vals) ==
    UNION { { {<<k, f[k]>> : k \in ks} : f \in [ks -> vals] } : ks \in SUBSET keys }

\* A body as text on the wire: malformed text or the text of a JSON document.
MalformedBody(raw) == [k |-> "malformed", raw |-> raw, members |-> {}]
NullBody == [k |-> "null", raw |-> "null", members |-> {}]
NumberBody == [k |-> "number", raw |-> "5", members |-> {}]
ObjectBody(ms) == [k |-> "object", raw |-> "", members |-> ms]

Bodies ==
    {MalformedBody("forbidden"), MalformedBody(""), NullBody, NumberBody}
    \cup {ObjectBody(ms) : ms \in ObjectsOver({"dailyRoom", "dailyToken"}, MemberVals)}
    \cup {ObjectBody({<<"dailyRoom", Str("U")>>, <<"dailyToken", Str("T")>>,
                      <<"sessionId", Str("S")>>})}

Statuses == {200, 201, 299, 300, 403, 500}
StatusTexts == {"OK", "Forbidden"}

\* The upstream responses of Spec.
Responses == [status : Statuses, statusText : StatusTexts, body : Bodies]

\* The upstream responses of SpecConc.
ConcResponses ==
    [status : {200, 403, 500}, statusText : StatusTexts,
     body : {MalformedBody("forbidden"), ObjectBody({}),
             ObjectBody({<<"dailyRoom", Str("U")>>, <<"dailyToken", Str("T")>>})}]

NoResponse == [status |-> 0, statusText |-> "", body |-> MalformedBody("")]
NoData == [t |-> "undefined", props |-> {}]
NoUpstream == [fetch |-> "none", resp |-> NoResponse, read |-> "none"]

----------------------------------------------------------------------------
(* Pure parts of the handler *)

\* !x for an environment value: undefined and "" are falsy.
FalsyUndefinedOnly(x) == ~x.set
Falsy(x) == ~x.set \/ x.v = ""

\* if (!apiKey)
KeyMissing(key) == Falsy(key)

\* if (!apiUrl)
UrlMissingNever(url) == FALSE
UrlMissing(url) == Falsy(url)

\* response.ok: the status is in the range 200-299.
OkLax(status) == status < 400
Ok(status) == status >= 200 /\ status <= 299

\* The fetch() call of the handler.
FetchCall(url, key) ==
    [url |-> url, method |-> "POST", authorization |-> <<"Bearer", key>>,
     contentType |-> "application/json",
     body |-> ObjectBody({<<"createDailyRoom", [t |-> "bool", v |-> "true"]>>})]

\* JSON.parse succeeds on the text of the body.
Parseable(body) == body.k # "malformed"

\* response.json() on a parseable body: the parsed value.
Parse(body) == [t |-> body.k, props |-> body.members]

\* data.<key>: the member, or undefined when data has no such member.
Get(d, key) ==
    IF \E p \in d.props : p[1] = key
    THEN (CHOOSE p \in d.props : p[1] = key)[2]
    ELSE Undefined

\* Reading a property of null throws a TypeError; of any other value it does not.
PropertyReadThrowsStrict(d) ==
    d.t = "null" \/ Get(d, "dailyRoom") = Undefined \/ Get(d, "dailyToken") = Undefined
PropertyReadThrows(d) == d.t = "null"

\* { url: data.dailyRoom, token: data.dailyToken }
ConnectResultSwapped(d) ==
    {<<"url", Get(d, "dailyToken")>>, <<"token", Get(d, "dailyRoom")>>}
ConnectResult(d) ==
    {<<"url", Get(d, "dailyRoom")>>, <<"token", Get(d, "dailyToken")>>}

\* The errors the handler throws or receives.
Err(name, message, resp) ==
    [name |-> name, message |-> message, status |-> resp.status,
     statusText |-> resp.statusText, body |-> resp.body]
KeyRequired == Err("Error", "PIPECAT_API_KEY environment variable is required", NoResponse)
UrlRequired == Err("Error", "PIPECAT_API_URL environment variable is required", NoResponse)
PipecatApiError(resp) == Err("Error", "Pipecat API error: ", resp)
FetchFailed == Err("TypeError", "fetch failed", NoResponse)
BodyReadFailed == Err("TypeError", "terminated", NoResponse)
JsonSyntaxError == Err("SyntaxError", "Unexpected token", NoResponse)
NullPropertyRead == Err("TypeError", "Cannot read properties of null", NoResponse)

\* { error: 'Failed to connect to Pipecat service' }
ErrorResultLeaky(error) == {<<"error", Str(error.message)>>}
ErrorResult(error) == {<<"error", Str("Failed to connect to Pipecat service")>>}

\* JSON.stringify of an object: members whose value is undefined are omitted.
Stringify(obj) == ObjectBody({p \in obj : p[2].t # "undefined"})

\* NextResponse.json(obj, { status })
NextResponseJson(obj, status) == [status |-> status, body |-> Stringify(obj)]

----------------------------------------------------------------------------
(* The handler *)

Init ==
    /\ env \in [PIPECAT_API_KEY : EnvVals, PIPECAT_API_URL : EnvVals]
    /\ pc = [i \in Inv |-> "pending"]
    /\ apiKey = [i \in Inv |-> EnvUnset]
    /\ apiUrl = [i \in Inv |-> EnvUnset]
    /\ calls = [i \in Inv |-> <<>>]
    /\ response = [i \in Inv |-> NoResponse]
    /\ data = [i \in Inv |-> NoData]
    /\ log = [i \in Inv |-> <<>>]
    /\ responses = [i \in Inv |-> <<>>]
    /\ upstream = [i \in Inv |-> NoUpstream]

\* catch (error) { console.error(...); return NextResponse.json({error}, {status: 500}) }
Catch(i, error) ==
    /\ log' = [log EXCEPT ![i] = Append(@, error)]
    /\ responses' = [responses EXCEPT ![i] = Append(@, NextResponseJson(ErrorResult(error), 500))]
    /\ pc' = [pc EXCEPT ![i] = "failed"]

\* A catch block that responds and then falls through to respond again.
CatchTwice(i, error) ==
    /\ log' = [log EXCEPT ![i] = Append(@, error)]
    /\ responses' = [responses EXCEPT ![i] =
                        Append(Append(@, NextResponseJson(ErrorResult(error), 500)),
                               NextResponseJson(ErrorResult(error), 500))]
    /\ pc' = [pc EXCEPT ![i] = "failed"]

\* The handler from its entry to the await of fetch().
POST(i) ==
    /\ pc[i] = "pending"
    /\ apiKey' = [apiKey EXCEPT ![i] = env.PIPECAT_API_KEY]
    /\ apiUrl' = [apiUrl EXCEPT ![i] = env.PIPECAT_API_URL]
    /\ IF KeyMissing(env.PIPECAT_API_KEY)
       THEN Catch(i, KeyRequired) /\ UNCHANGED calls
       ELSE IF UrlMissing(env.PIPECAT_API_URL)
            THEN Catch(i, UrlRequired) /\ UNCHANGED calls
            ELSE /\ calls' = [calls EXCEPT ![i] =
                                Append(@, FetchCall(env.PIPECAT_API_URL, env.PIPECAT_API_KEY))]
                 /\ pc' = [pc EXCEPT ![i] = "awaitFetch"]
                 /\ UNCHANGED <<log, responses>>
    /\ UNCHANGED <<env, response, data, upstream>>

\* A fetch whose resolved response lands in a variable shared by all invocations.
FetchResolveShared(i, r) ==
    /\ pc[i] = "awaitFetch"
    /\ response' = [j \in Inv |-> r]
    /\ upstream' = [upstream EXCEPT ![i] = [@ EXCEPT !.fetch = "resolved", !.resp = r]]
    /\ pc' = [pc EXCEPT ![i] = IF Ok(r.status) THEN "awaitJson" ELSE "awaitText"]
    /\ UNCHANGED <<env, apiKey, apiUrl, calls, data, log, responses>>

\* fetch() resolves with r; the handler goes on to await response.text() when
\* the status is not ok, and response.json() when it is.
FetchResolve(i, r) ==
    /\ pc[i] = "awaitFetch"
    /\ response' = [response EXCEPT ![i] = r]
    /\ upstream' = [upstream EXCEPT ![i] = [@ EXCEPT !.fetch = "resolved", !.resp = r]]
    /\ pc' = [pc EXCEPT ![i] = IF Ok(r.status) THEN "awaitJson" ELSE "awaitText"]
    /\ UNCHANGED <<env, apiKey, apiUrl, calls, data, log, responses>>

\* fetch() rejects (network-level fault); the catch block runs.
FetchReject(i) ==
    /\ pc[i] = "awaitFetch"
    /\ upstream' = [upstream EXCEPT ![i] = [@ EXCEPT !.fetch = "rejected"]]
    /\ Catch(i, FetchFailed)
    /\ UNCHANGED <<env, apiKey, apiUrl, calls, response, data>>

\* A handler that calls fetch() again after a non-ok response.
TextResolveRetry(i) ==
    /\ pc[i] = "awaitText"
    /\ Len(calls[i]) < 2
    /\ upstream' = [upstream EXCEPT ![i] = [@ EXCEPT !.read = "ok"]]
    /\ calls' = [calls EXCEPT ![i] = Append(@, FetchCall(apiUrl[i], apiKey[i]))]
    /\ pc' = [pc EXCEPT ![i] = "awaitFetch"]
    /\ UNCHANGED <<env, apiKey, apiUrl, response, data, log, responses>>

\* response.text() resolves; the handler throws the Pipecat API error, which is caught.
TextResolve(i) ==
    /\ pc[i] = "awaitText"
    /\ upstream' = [upstream EXCEPT ![i] = [@ EXCEPT !.read = "ok"]]
    /\ Catch(i, PipecatApiError(response[i]))
    /\ UNCHANGED <<env, apiKey, apiUrl, calls, response, data>>

\* response.json() resolves with the parsed body; the handler reads the two
\* members and returns the 200 response, or the read of a member of null throws.
JsonResolve(i) ==
    /\ pc[i] = "awaitJson"
    /\ Parseable(response[i].body)
    /\ upstream' = [upstream EXCEPT ![i] = [@ EXCEPT !.read = "ok"]]
    /\ data' = [data EXCEPT ![i] = Parse(response[i].body)]
    /\ IF PropertyReadThrows(Parse(response[i].body))
       THEN Catch(i, NullPropertyRead)
       ELSE /\ responses' = [responses EXCEPT ![i] =
                 Append(@, NextResponseJson(ConnectResult(Parse(response[i].body)), 200))]
            /\ pc' = [pc EXCEPT ![i] = "succeeded"]
            /\ UNCHANGED log
    /\ UNCHANGED <<env, apiKey, apiUrl, calls, response>>

\* A handler that takes an unparsable body for an empty object.
JsonParseErrorIgnored(i) ==
    /\ pc[i] = "awaitJson"
    /\ ~Parseable(response[i].body)
    /\ upstream' = [upstream EXCEPT ![i] = [@ EXCEPT !.read = "ok"]]
    /\ responses' = [responses EXCEPT ![i] =
          Append(@, NextResponseJson(ConnectResult([t |-> "object", props |-> {}]), 200))]
    /\ pc' = [pc EXCEPT ![i] = "succeeded"]
    /\ UNCHANGED <<env, apiKey, apiUrl, calls, response, data, log>>

\* response.json() rejects because the body is not JSON; the catch block runs.
JsonParseError(i) ==
    /\ pc[i] = "awaitJson"
    /\ ~Parseable(response[i].body)
    /\ upstream' = [upstream EXCEPT ![i] = [@ EXCEPT !.read = "ok"]]
    /\ Catch(i, JsonSyntaxError)
    /\ UNCHANGED <<env, apiKey, apiUrl, calls, response, data>>

\* A body read fault whose catch block responds twice.
ReadBodyFaultTwice(i) ==
    /\ pc[i] \in {"awaitText", "awaitJson"}
    /\ upstream' = [upstream EXCEPT ![i] = [@ EXCEPT !.read = "fault"]]
    /\ CatchTwice(i, BodyReadFailed)
    /\ UNCHANGED <<env, apiKey, apiUrl, calls, response, data>>

\* response.text() or response.json() rejects because the body stream faults.
ReadBodyFault(i) ==
    /\ pc[i] \in {"awaitText", "awaitJson"}
    /\ upstream' = [upstream EXCEPT ![i] = [@ EXCEPT !.read = "fault"]]
    /\ Catch(i, BodyReadFailed)
    /\ UNCHANGED <<env, apiKey, apiUrl, calls, response, data>>

----------------------------------------------------------------------------
(* Specifications *)

\* One invocation running alone.
Next ==
    \/ \E i \in Alone : POST(i)
    \/ \E i \in Alone, r \in Responses : FetchResolve(i, r)
    \/ \E i \in Alone : FetchReject(i)
    \/ \E i \in Alone : TextResolve(i)
    \/ \E i \in Alone : JsonResolve(i)
    \/ \E i \in Alone : JsonParseError(i)
    \/ \E i \in Alone : ReadBodyFault(i)

Spec == Init /\ [][Next]_vars

\* All invocations, interleaved at their awaits.
NextConc ==
    \/ \E i \in Inv : POST(i)
    \/ \E i \in Inv, r \in ConcResponses : FetchResolve(i, r)
    \/ \E i \in Inv : FetchReject(i)
    \/ \E i \in Inv : TextResolve(i)
    \/ \E i \in Inv : JsonResolve(i)
    \/ \E i \in Inv : JsonParseError(i)
    \/ \E i \in Inv : ReadBodyFault(i)

SpecConc == Init /\ [][NextConc]_vars

\* The synchronous segments run once they can; the upstream call and the read
\* of its body each complete, by returning or by throwing.
Settle(i) ==
    \/ \E r \in ConcResponses : FetchResolve(i, r)
    \/ FetchReject(i)
    \/ TextResolve(i)
    \/ JsonResolve(i)
    \/ JsonParseError(i)
    \/ ReadBodyFault(i)

SpecLive ==
    /\ Init
    /\ [][NextConc]_vars
    /\ \A i \in Inv : WF_vars(POST(i)) /\ WF_vars(Settle(i))

----------------------------------------------------------------------------
(* Vocabulary of the properties *)

Terminal(i) == pc[i] \in {"succeeded", "failed"}
Present(x) == x.set /\ x.v # ""
BothPresent == Present(env.PIPECAT_API_KEY) /\ Present(env.PIPECAT_API_URL)
Is2xx(status) == status \in 200..299
GenericError == [status |-> 500,
                 body |-> ObjectBody({<<"error", Str("Failed to connect to Pipecat service")>>})]
Resolved(i) == upstream[i].fetch = "resolved"
Has(ms, key) == \E p \in ms : p[1] = key
Never200(i) == \A n \in DOMAIN responses[i] : responses[i][n].status # 200

\* The state of one invocation.
Local(i) == <<pc[i], apiKey[i], apiUrl[i], calls[i], response[i], data[i],
              log[i], responses[i], upstream[i]>>

\* The moves of one invocation: pending, then the awaited upstream round trip,
\* then the awaited read of its body, then the terminal state.
Moves ==
    {<<"pending", "awaitFetch">>, <<"pending", "failed">>,
     <<"awaitFetch", "awaitText">>, <<"awaitFetch", "awaitJson">>, <<"awaitFetch", "failed">>,
     <<"awaitText", "failed">>,
     <<"awaitJson", "succeeded">>, <<"awaitJson", "failed">>}

----------------------------------------------------------------------------
(* Properties *)

\* C1: when both configuration values are present and the upstream returns a
\* 2xx status with the JSON body {dailyRoom: U, dailyToken: T}, the response
\* is exactly 200 {url: U, token: T}, for all U and T.
C1_RenamesFields ==
    \A i \in Inv : \A U \in MemberVals, T \in MemberVals :
        ( /\ Terminal(i)
          /\ Resolved(i)
          /\ Is2xx(upstream[i].resp.status)
          /\ upstream[i].read = "ok"
          /\ upstream[i].resp.body = ObjectBody({<<"dailyRoom", U>>, <<"dailyToken", T>>}) )
        => responses[i] = << [status |-> 200,
                              body |-> ObjectBody({<<"url", U>>, <<"token", T>>})] >>

C1_Witness ==
    \E i \in Inv :
        /\ pc[i] = "succeeded"
        /\ upstream[i].resp.status = 201
        /\ upstream[i].resp.body = ObjectBody({<<"dailyRoom", Str("U")>>, <<"dailyToken", Str("T")>>})
        /\ responses[i][1].body = ObjectBody({<<"url", Str("U")>>, <<"token", Str("T")>>})

\* C2: when PIPECAT_API_KEY or PIPECAT_API_URL is unset, the response is the
\* generic 500 and no outbound call is made at any point of the invocation.
C2_UnsetConfigFailsWithoutCall ==
    (~env.PIPECAT_API_KEY.set \/ ~env.PIPECAT_API_URL.set) =>
        \A i \in Inv :
            /\ calls[i] = <<>>
            /\ pc[i] \in {"pending", "failed"}
            /\ Terminal(i) => responses[i] = <<GenericError>>

C2_Witness ==
    \E i \in Inv :
        /\ env.PIPECAT_API_KEY = EnvStr("x")
        /\ ~env.PIPECAT_API_URL.set
        /\ pc[i] = "failed"
        /\ calls[i] = <<>>

\* C3: when the upstream returns a non-2xx status, with any status text and
\* body, the response is the generic 500 and the outbound call is made exactly
\* once: it is not retried.
C3_Non2xxFailsAfterOneCall ==
    \A i \in Inv :
        (Resolved(i) /\ ~Is2xx(upstream[i].resp.status)) =>
            /\ Len(calls[i]) = 1
            /\ pc[i] \in {"awaitText", "failed"}
            /\ Terminal(i) => responses[i] = <<GenericError>>

C3_Witness ==
    \E i \in Inv :
        /\ pc[i] = "failed"
        /\ upstream[i].resp.status = 300
        /\ upstream[i].resp.body.k = "object"
        /\ upstream[i].read = "ok"
        /\ Len(calls[i]) = 1

\* C4: every failure path gives the caller the same generic 500: two failing
\* invocations with different causes, statuses, status texts or bodies have
\* identical responses.
C4_FailuresIndistinguishable ==
    \A i \in Inv :
        log[i] # <<>> =>
            /\ pc[i] = "failed"
            /\ responses[i] = <<GenericError>>
            /\ \A j \in Inv : log[j] # <<>> => responses[j] = responses[i]

C4_Witness ==
    \E i \in Inv, j \in Inv :
        /\ pc[i] = "failed" /\ pc[j] = "failed"
        /\ log[i][1].status = 403
        /\ log[i][1].body = MalformedBody("forbidden")
        /\ log[j][1] \in {FetchFailed, JsonSyntaxError, BodyReadFailed}

\* C5: when the upstream returns a 2xx status with a body that is not JSON,
\* the response is the generic 500, never a 200.
C5_MalformedBodyFails ==
    \A i \in Inv :
        ( /\ Resolved(i)
          /\ Is2xx(upstream[i].resp.status)
          /\ upstream[i].resp.body.k = "malformed" ) =>
            /\ Never200(i)
            /\ pc[i] \in {"awaitJson", "failed"}
            /\ Terminal(i) => responses[i] = <<GenericError>>

C5_Witness ==
    \E i \in Inv :
        /\ pc[i] = "failed"
        /\ upstream[i].resp.status = 200
        /\ upstream[i].resp.body = MalformedBody("forbidden")
        /\ upstream[i].read = "ok"
        /\ log[i] = <<JsonSyntaxError>>

\* C6 as stated: every invocation has made exactly one outbound call by the
\* time it returns, whatever the configuration.
C6_ExactlyOneCall ==
    \A i \in Inv : Terminal(i) => Len(calls[i]) = 1

\* C6 amended: an invocation makes at most one outbound call; by the time it
\* returns it has made exactly one when both configuration values are present
\* and none when either is missing.
C6_OneCallIffConfigured ==
    \A i \in Inv :
        /\ Len(calls[i]) <= 1
        /\ Terminal(i) => (Len(calls[i]) = IF BothPresent THEN 1 ELSE 0)

C6_Witness ==
    \E i \in Inv :
        /\ Terminal(i)
        /\ upstream[i].read = "ok"
        /\ Len(calls[i]) = 1

\* C7: an invocation starts pending and, when the upstream call and the body
\* read complete, reaches succeeded (one 200 response) or failed (one 500
\* response); it returns exactly one response, never leaves the terminal
\* state, and moves only through the awaited fetch and then the awaited body
\* read.
C7_Lifecycle ==
    /\ \A i \in Inv : pc[i] = "pending" /\ responses[i] = <<>>
    /\ [][\A i \in Inv : pc'[i] # pc[i] => <<pc[i], pc'[i]>> \in Moves]_vars
    /\ [][\A i \in Inv : Terminal(i) => (pc'[i] = pc[i] /\ responses'[i] = responses[i])]_vars
    /\ [](\A i \in Inv :
            /\ Len(responses[i]) = IF Terminal(i) THEN 1 ELSE 0
            /\ pc[i] = "succeeded" => responses[i][1].status = 200
            /\ pc[i] = "failed" => responses[i][1].status = 500)
    /\ \A i \in Inv : <>Terminal(i)

C7_Witness ==
    \E i \in Inv, j \in Inv :
        /\ pc[i] = "succeeded" /\ upstream[i].read = "ok"
        /\ pc[j] = "failed" /\ upstream[j].read = "fault"

\* C8: when the upstream returns a 2xx status and a JSON object that lacks
\* dailyRoom or dailyToken, the response is 200 with the matching field
\* undefined, and the failure path is not taken.
C8_NoShapeValidation ==
    \A i \in Inv :
        ( /\ Terminal(i)
          /\ Resolved(i)
          /\ Is2xx(upstream[i].resp.status)
          /\ upstream[i].read = "ok"
          /\ upstream[i].resp.body.k = "object"
          /\ ~(Has(upstream[i].resp.body.members, "dailyRoom")
               /\ Has(upstream[i].resp.body.members, "dailyToken")) ) =>
            /\ pc[i] = "succeeded"
            /\ log[i] = <<>>
            /\ Len(responses[i]) = 1
            /\ responses[i][1].status = 200
            /\ Has(responses[i][1].body.members, "url")
                   <=> Has(upstream[i].resp.body.members, "dailyRoom")
            /\ Has(responses[i][1].body.members, "token")
                   <=> Has(upstream[i].resp.body.members, "dailyToken")

C8_Witness ==
    \E i \in Inv :
        /\ pc[i] = "succeeded"
        /\ upstream[i].resp.body = ObjectBody({<<"dailyToken", Str("T")>>})
        /\ responses[i] = << [status |-> 200, body |-> ObjectBody({<<"token", Str("T")>>})] >>

\* C9: concurrent invocations are independent: a step of one invocation leaves
\* the state of every other untouched, and the response of an invocation is
\* determined by the configuration and the outcome of its own upstream call.
C9_Independent ==
    /\ [][\E i \in Inv : \A j \in Inv \ {i} : Local(j)' = Local(j)]_vars
    /\ [][env' = env]_vars
    /\ [](\A i \in Inv, j \in Inv :
            (Terminal(i) /\ Terminal(j) /\ upstream[i] = upstream[j])
                => responses[i] = responses[j])
    /\ [](\A i \in Inv : response[i] = upstream[i].resp)

C9_Witness ==
    \E i \in Inv, j \in Inv :
        /\ pc[i] = "succeeded" /\ pc[j] = "failed"
        /\ upstream[i].resp.status = 200
        /\ upstream[j].resp.status = 403
        /\ responses[i] # responses[j]

\* C10: a configuration value that is the empty string is treated like an
\* unset one: the response is the generic 500 and no outbound call is made.
C10_EmptyStringIsMissing ==
    (env.PIPECAT_API_KEY = EnvStr("") \/ env.PIPECAT_API_URL = EnvStr("")) =>
        \A i \in Inv :
            /\ Len(calls[i]) = 0
            /\ pc[i] \in {"pending", "failed"}
            /\ Terminal(i) => responses[i] = <<GenericError>>

C10_Witness ==
    \E i \in Inv :
        /\ env.PIPECAT_API_KEY = EnvStr("x")
        /\ env.PIPECAT_API_URL = EnvStr("")
        /\ pc[i] = "failed"
        /\ log[i] = <<UrlRequired>>
====
